---- MODULE Spec2Model ----
(***************************************************************************)
(* Model of uav_failure_detection_exercise.py: the loader (load_data), the *)
(* replay loop (run_simulation) and the three algorithm callbacks          *)
(* (algorithm_init, algorithm_update, algorithm_done) with the module      *)
(* level accumulators they share.                                          *)
(***************************************************************************)
EXTENDS Integers, Sequences, FiniteSets, TLC

VARIABLES
    data_list,      \* ulog.data_list: the decoder's batches, in file order
    data,           \* the list handed to run_simulation
    pc,             \* position of the caller / of run_simulation
    i,              \* 1-based index of the next element of the for loop
    start_seconds,  \* module global, line 71
    end_seconds,    \* module global, line 72
    pressure_time,  \* module global, line 73
    pressure_log,   \* module global, line 74
    kill_sw_time,   \* module global, line 75
    kill_sw_log,    \* module global, line 76
    stdout,         \* everything print() has written, in order
    plots,          \* the argument tuples of the plot_result calls, in order
    error,          \* the exception that ended the run, "none" if none
    trace,          \* the algorithm_* calls made by the current run_simulation
    runs,           \* number of run_simulation calls started
    done_calls      \* number of algorithm_done calls made after a run returned

vars == <<data_list, data, pc, i, start_seconds, end_seconds, pressure_time,
          pressure_log, kill_sw_time, kill_sw_log, stdout, plots, error,
          trace, runs, done_calls>>

----------------------------------------------------------------------------
(* Bounds of the model. *)

MaxBatches == 2     \* batches in ulog.data_list
MaxRows == 3        \* rows over all batches of one log
MaxFed == 3         \* length of a list a caller hands to run_simulation
MaxRuns == 2        \* run_simulation calls in one process
MaxDoneCalls == 1   \* extra algorithm_done calls after a run returned

----------------------------------------------------------------------------
(* Python dicts keep insertion order: a dict is the sequence of its        *)
(* <<key, value>> pairs in insertion order.                                *)

HasKey(d, k) == \E n \in 1..Len(d) : d[n][1] = k

\* d[k] of a dict that has the key
Get(d, k) == d[CHOOSE n \in 1..Len(d) : d[n][1] = k][2]

\* list(d.values())
Values(d) == [n \in 1..Len(d) |-> d[n][2]]

\* the set of keys
Keys(d) == {d[n][1] : n \in 1..Len(d)}

----------------------------------------------------------------------------
(* Timestamps. The log holds microseconds as integers; load_data stores     *)
(* int(ts)/1000000., seconds as a float. The float is modelled as the      *)
(* decimal it denotes, <<whole seconds, millionths>>, which is exact for   *)
(* every microsecond count below 2^53.                                     *)

MicrosPerSecond == 1000000

Seconds(ts) == <<ts \div MicrosPerSecond, ts % MicrosPerSecond>>

\* a < b on two timestamps in seconds
TsLess(a, b) == a[1] < b[1] \/ (a[1] = b[1] /\ a[2] < b[2])

TsLeq(a, b) == ~TsLess(b, a)

\* t > s and t < s for a timestamp t in seconds and a whole number s
TsGreaterThan(t, s) == t[1] > s \/ (t[1] = s /\ t[2] > 0)

TsLessThan(t, s) == t[1] < s

----------------------------------------------------------------------------
(* load_data *)

Zip2(a, b) ==
    LET n == IF Len(a) < Len(b) THEN Len(a) ELSE Len(b)
    IN  [k \in 1..n |-> <<a[k], b[k]>>]

MinLen(cols) ==
    CHOOSE n \in {Len(cols[k]) : k \in 1..Len(cols)} :
        \A k \in 1..Len(cols) : n <= Len(cols[k])

\* the dicts appended to d for one element of ulog.data_list
EventsOf(batch) ==
    IF batch.name = "sensor_combined"
    THEN LET cols == <<batch.data["timestamp"],
                       batch.data["gyro_rad[0]"], batch.data["gyro_rad[1]"],
                       batch.data["gyro_rad[2]"],
                       batch.data["accelerometer_m_s2[0]"],
                       batch.data["accelerometer_m_s2[1]"],
                       batch.data["accelerometer_m_s2[2]"]>>
         IN  [k \in 1..MinLen(cols) |->
                <<<<"timestamp", Seconds(cols[1][k])>>,
                  <<"field", batch.name>>,
                  <<"gyro_rad_x", cols[2][k]>>,
                  <<"gyro_rad_y", cols[3][k]>>,
                  <<"gyro_rad_z", cols[4][k]>>,
                  <<"acc_x", cols[5][k]>>,
                  <<"acc_y", cols[6][k]>>,
                  <<"acc_z", cols[7][k]>> >>]
    ELSE IF batch.name = "vehicle_air_data"
    THEN LET z == Zip2(batch.data["timestamp"], batch.data["baro_pressure_pa"])
         IN  [k \in 1..Len(z) |->
                <<<<"timestamp", Seconds(z[k][1])>>,
                  <<"field", batch.name>>,
                  <<"baro_pressure_pa", z[k][2]>> >>]
    ELSE IF batch.name = "manual_control_setpoint"
    THEN LET z == Zip2(batch.data["timestamp"], batch.data["aux1"])
         IN  [k \in 1..Len(z) |->
                <<<<"timestamp", Seconds(z[k][1])>>,
                  <<"field", batch.name>>,
                  <<"aux1", z[k][2]>> >>]
    ELSE << >>

\* the 'Keys' line printed for one element of ulog.data_list
KeysLines(batch) ==
    IF batch.name \in {"sensor_combined", "vehicle_air_data",
                       "manual_control_setpoint"}
    THEN << <<"Keys", batch.field_names>> >>
    ELSE << >>

RECURSIVE CollectLastOfTopic(_)
\* a loader that keeps one batch per topic, the last one of the data list
CollectLastOfTopic(batches) ==
    IF batches = << >> THEN << >>
    ELSE IF \E k \in 2..Len(batches) : batches[k].name = batches[1].name
         THEN CollectLastOfTopic(Tail(batches))
         ELSE EventsOf(batches[1]) \o CollectLastOfTopic(Tail(batches))

RECURSIVE Collect(_)
\* d after the loop over ulog.data_list
Collect(batches) ==
    IF batches = << >> THEN << >>
    ELSE Collect(SubSeq(batches, 1, Len(batches) - 1))
            \o EventsOf(batches[Len(batches)])

RECURSIVE CollectKeys(_)
CollectKeys(batches) ==
    IF batches = << >> THEN << >>
    ELSE CollectKeys(SubSeq(batches, 1, Len(batches) - 1))
            \o KeysLines(batches[Len(batches)])

\* key=lambda x: list(x.values())[0]
SortKey(x) == Values(x)[1]

\* an insertion that puts x before the elements with an equal key
InsertBeforeEqual(s, x) ==
    LET before == {n \in 0..Len(s) :
                      \A m \in 1..n : TsLess(SortKey(s[m]), SortKey(x))}
        p == CHOOSE n \in before : \A m \in before : m <= n
    IN  SubSeq(s, 1, p) \o <<x>> \o SubSeq(s, p + 1, Len(s))

\* s with x put after every element whose key is not greater than x's:
\* the place a stable sort gives a later element
Insert(s, x) ==
    LET before == {n \in 0..Len(s) :
                      \A m \in 1..n : TsLeq(SortKey(s[m]), SortKey(x))}
        p == CHOOSE n \in before : \A m \in before : m <= n
    IN  SubSeq(s, 1, p) \o <<x>> \o SubSeq(s, p + 1, Len(s))

RECURSIVE sorted(_)
\* sorted(d, key=SortKey): ascending, stable
sorted(d) ==
    IF d = << >> THEN << >>
    ELSE Insert(sorted(SubSeq(d, 1, Len(d) - 1)), d[Len(d)])

\* load_data returning d instead of sorted_data
LoadDataUnsorted(batches) == Collect(batches)

\* the value load_data returns
LoadData(batches) == sorted(Collect(batches))

----------------------------------------------------------------------------
(* The algorithm callbacks. *)

\* a window test with >= on the lower bound
InWindowInclusive(ts) ==
    ~TsLessThan(ts, start_seconds) /\ TsLessThan(ts, end_seconds)

\* new_data['timestamp'] > start_seconds and new_data['timestamp'] < end_seconds
InWindow(ts) == TsGreaterThan(ts, start_seconds) /\ TsLessThan(ts, end_seconds)

\* the outcome of a callback: whether it raised, the lines it printed and the
\* accumulators it leaves
Outcome(raised, lines, pt, pl, kt, kl) ==
    [raised |-> raised, lines |-> lines, pt |-> pt, pl |-> pl, kt |-> kt,
     kl |-> kl]

\* nothing printed, nothing appended
Untouched(raised) ==
    Outcome(raised, << >>, pressure_time, pressure_log, kill_sw_time,
            kill_sw_log)

ImuKeys == {"gyro_rad_x", "gyro_rad_y", "gyro_rad_z", "acc_x", "acc_y", "acc_z"}

\* lines 86-87
ImuBranch(e) ==
    IF ~(ImuKeys \subseteq Keys(e)) THEN Untouched(TRUE)
    ELSE Outcome(FALSE,
                 << <<Get(e, "timestamp"), "imu", Get(e, "gyro_rad_x"),
                      Get(e, "gyro_rad_y"), Get(e, "gyro_rad_z"),
                      Get(e, "acc_x"), Get(e, "acc_y"), Get(e, "acc_z")>> >>,
                 pressure_time, pressure_log, kill_sw_time, kill_sw_log)

\* a pressure branch that appends the timestamp before it reads the pressure
PressureBranchAppendsFirst(e) ==
    IF ~HasKey(e, "baro_pressure_pa")
    THEN Outcome(TRUE, << >>, Append(pressure_time, Get(e, "timestamp")),
                 pressure_log, kill_sw_time, kill_sw_log)
    ELSE Outcome(FALSE,
                 << <<Get(e, "timestamp"), "pressure",
                      Get(e, "baro_pressure_pa")>> >>,
                 Append(pressure_time, Get(e, "timestamp")),
                 Append(pressure_log, Get(e, "baro_pressure_pa")),
                 kill_sw_time, kill_sw_log)

\* lines 90-93: the print evaluates new_data['baro_pressure_pa'] first
PressureBranch(e) ==
    IF ~HasKey(e, "baro_pressure_pa") THEN Untouched(TRUE)
    ELSE Outcome(FALSE,
                 << <<Get(e, "timestamp"), "pressure",
                      Get(e, "baro_pressure_pa")>> >>,
                 Append(pressure_time, Get(e, "timestamp")),
                 Append(pressure_log, Get(e, "baro_pressure_pa")),
                 kill_sw_time, kill_sw_log)

\* lines 96-99
KillSwitchBranch(e) ==
    IF ~HasKey(e, "aux1") THEN Untouched(TRUE)
    ELSE Outcome(FALSE,
                 << <<Get(e, "timestamp"), "kill switch", Get(e, "aux1")>> >>,
                 pressure_time, pressure_log,
                 Append(kill_sw_time, Get(e, "timestamp")),
                 Append(kill_sw_log, Get(e, "aux1")))

\* algorithm_update(new_data); a missing key is Python's KeyError
AlgorithmUpdate(e) ==
    IF ~HasKey(e, "timestamp") THEN Untouched(TRUE)
    ELSE IF ~InWindow(Get(e, "timestamp")) THEN Untouched(FALSE)
    ELSE IF ~HasKey(e, "field") THEN Untouched(TRUE)
    ELSE IF Get(e, "field") = "sensor_combined" THEN ImuBranch(e)
    ELSE IF Get(e, "field") = "vehicle_air_data" THEN PressureBranch(e)
    ELSE IF Get(e, "field") = "manual_control_setpoint" THEN KillSwitchBranch(e)
    ELSE Untouched(FALSE)

\* algorithm_init(): prints, and touches no accumulator
AlgorithmInit ==
    Outcome(FALSE, << <<"Algorithm init">> >>, pressure_time, pressure_log,
            kill_sw_time, kill_sw_log)

\* an algorithm_done that empties the accumulators it has plotted
AlgorithmDoneClears ==
    Outcome(FALSE, << <<"Algorithm done">> >>, << >>, << >>, << >>, << >>)

\* algorithm_done(): prints, then hands the accumulators to plot_result
AlgorithmDone ==
    Outcome(FALSE, << <<"Algorithm done">> >>, pressure_time, pressure_log,
            kill_sw_time, kill_sw_log)

\* the arguments of the plot_result call of algorithm_done, line 103
PlotArgs ==
    <<start_seconds, end_seconds, pressure_time, pressure_log, kill_sw_time,
      kill_sw_log>>

\* the accumulators and stdout after a callback
Apply(o) ==
    /\ pressure_time' = o.pt
    /\ pressure_log' = o.pl
    /\ kill_sw_time' = o.kt
    /\ kill_sw_log' = o.kl
    /\ stdout' = stdout \o o.lines

----------------------------------------------------------------------------
(* The caller and run_simulation. *)

\* lines 156-159: load the log, then enter run_simulation
Main_load ==
    /\ pc = "main"
    /\ data' = LoadData(data_list)
    /\ stdout' = stdout \o << <<"Loading data from the ulog file">> >>
                        \o CollectKeys(data_list)
                        \o << <<"Run simulation">> >>
    /\ pc' = "run"
    /\ runs' = runs + 1
    /\ UNCHANGED <<data_list, i, start_seconds, end_seconds, pressure_time,
                   pressure_log, kill_sw_time, kill_sw_log, plots, error,
                   trace, done_calls>>

\* line 150
Run_init ==
    /\ pc = "run"
    /\ Apply(AlgorithmInit)
    /\ trace' = << <<"init">> >>
    /\ i' = 1
    /\ pc' = "loop"
    /\ UNCHANGED <<data_list, data, start_seconds, end_seconds, plots, error,
                   runs, done_calls>>

\* a loop that steps over the element after the one it feeds
Run_updateSkipping ==
    /\ pc = "loop"
    /\ i <= Len(data)
    /\ LET o == AlgorithmUpdate(data[i])
       IN  /\ Apply(o)
           /\ trace' = Append(trace, <<"update", data[i]>>)
           /\ IF o.raised
              THEN /\ error' = "KeyError"
                   /\ pc' = "aborted"
                   /\ i' = i
              ELSE /\ error' = error
                   /\ pc' = pc
                   /\ i' = i + 2
    /\ UNCHANGED <<data_list, data, start_seconds, end_seconds, plots, runs,
                   done_calls>>

\* lines 151-152: one iteration of the for loop
Run_update ==
    /\ pc = "loop"
    /\ i <= Len(data)
    /\ LET o == AlgorithmUpdate(data[i])
       IN  /\ Apply(o)
           /\ trace' = Append(trace, <<"update", data[i]>>)
           /\ IF o.raised
              THEN /\ error' = "KeyError"
                   /\ pc' = "aborted"
                   /\ i' = i
              ELSE /\ error' = error
                   /\ pc' = pc
                   /\ i' = i + 1
    /\ UNCHANGED <<data_list, data, start_seconds, end_seconds, plots, runs,
                   done_calls>>

\* line 153, and the return of run_simulation
Run_done ==
    /\ pc = "loop"
    /\ i > Len(data)
    /\ Apply(AlgorithmDone)
    /\ plots' = Append(plots, PlotArgs)
    /\ trace' = Append(trace, <<"done">>)
    /\ pc' = "returned"
    /\ UNCHANGED <<data_list, data, i, start_seconds, end_seconds, error,
                   runs, done_calls>>

\* line 162
Main_completed ==
    /\ pc = "returned"
    /\ stdout' = Append(stdout, <<"Simulation completed">>)
    /\ pc' = "completed"
    /\ UNCHANGED <<data_list, data, i, start_seconds, end_seconds,
                   pressure_time, pressure_log, kill_sw_time, kill_sw_log,
                   plots, error, trace, runs, done_calls>>

\* a caller that imported the module calls run_simulation(data) once more
Run_again ==
    /\ pc = "returned"
    /\ runs < MaxRuns
    /\ done_calls = 0
    /\ runs' = runs + 1
    /\ pc' = "run"
    /\ trace' = << >>
    /\ UNCHANGED <<data_list, data, i, start_seconds, end_seconds,
                   pressure_time, pressure_log, kill_sw_time, kill_sw_log,
                   stdout, plots, error, done_calls>>

\* a caller calls algorithm_done() once more after the run returned
Done_again ==
    /\ pc = "returned"
    /\ done_calls < MaxDoneCalls
    /\ Apply(AlgorithmDone)
    /\ plots' = Append(plots, PlotArgs)
    /\ done_calls' = done_calls + 1
    /\ UNCHANGED <<data_list, data, pc, i, start_seconds, end_seconds, error,
                   trace, runs>>

----------------------------------------------------------------------------
(* Inputs. *)

\* raw timestamps of the log, in microseconds: on the lower bound of the
\* window, just inside it, and on its upper bound
RawTimestamps == {100000000, 100000001, 900000000}

PayloadValues == {1, 2}

\* a column of a batch: one entry per row
Column(rows, c) == [k \in 1..Len(rows) |-> rows[k][c]]

\* a topic of the log that load_data does not read
OtherTopic == "vehicle_gps_position"

Topics == {"sensor_combined", "vehicle_air_data", "manual_control_setpoint",
           OtherTopic}

\* the rows a batch of a topic can hold, <<timestamp, value>>: two values
\* inside the window, so that rows with equal timestamps can be told apart,
\* pressure rows also on the lower bound and kill-switch rows on the upper
RowsOf(name) ==
    IF name = "vehicle_air_data"
    THEN {<<100000000, 1>>, <<100000001, 1>>, <<100000001, 2>>}
    ELSE IF name = "manual_control_setpoint"
    THEN {<<100000001, 1>>, <<100000001, 2>>, <<900000000, 1>>}
    ELSE IF name = "sensor_combined"
    THEN {<<100000000, 0>>, <<100000001, 0>>}
    ELSE {<<100000001, 0>>}

\* the decoder's record of one topic: its name, its field names and its
\* columns, all of the same length
Batch(name, rows) ==
    IF name = "sensor_combined"
    THEN [name |-> name,
          field_names |-> <<"timestamp", "gyro_rad[0]", "gyro_rad[1]",
                            "gyro_rad[2]", "accelerometer_m_s2[0]",
                            "accelerometer_m_s2[1]", "accelerometer_m_s2[2]">>,
          data |-> [c \in {"timestamp", "gyro_rad[0]", "gyro_rad[1]",
                           "gyro_rad[2]", "accelerometer_m_s2[0]",
                           "accelerometer_m_s2[1]", "accelerometer_m_s2[2]"}
                      |-> Column(rows, IF c = "timestamp" THEN 1 ELSE 2)]]
    ELSE IF name = "vehicle_air_data"
    THEN [name |-> name,
          field_names |-> <<"timestamp", "baro_pressure_pa">>,
          data |-> [c \in {"timestamp", "baro_pressure_pa"}
                      |-> Column(rows, IF c = "timestamp" THEN 1 ELSE 2)]]
    ELSE IF name = "manual_control_setpoint"
    THEN [name |-> name,
          field_names |-> <<"timestamp", "aux1">>,
          data |-> [c \in {"timestamp", "aux1"}
                      |-> Column(rows, IF c = "timestamp" THEN 1 ELSE 2)]]
    ELSE [name |-> name,
          field_names |-> <<"timestamp", "lat">>,
          data |-> [c \in {"timestamp", "lat"}
                      |-> Column(rows, IF c = "timestamp" THEN 1 ELSE 2)]]

\* the batches with exactly k rows
BatchesWith(k) ==
    UNION {{Batch(name, rows) : rows \in [1..k -> RowsOf(name)]} :
           name \in Topics}

RECURSIVE DataLists(_, _)
\* the data lists of at most nb batches, each with a row, and nr rows in all
DataLists(nb, nr) ==
    IF nb = 0 \/ nr = 0 THEN {<< >>}
    ELSE {<< >>} \cup
         UNION {{<<b>> \o l : b \in BatchesWith(k),
                              l \in DataLists(nb - 1, nr - k)} :
                k \in 1..nr}

\* the window of the source, lines 71-72
SourceWindow == <<100, 900>>

\* the dicts a caller can build by hand: complete ones, and ones that lack
\* the payload key of their kind
FedTimestamps == {Seconds(100000000), Seconds(100000001)}

FedEvents ==
    UNION {{ << <<"timestamp", t>>, <<"field", "vehicle_air_data">>,
                <<"baro_pressure_pa", 1>> >>,
             << <<"timestamp", t>>, <<"field", "vehicle_air_data">> >>,
             << <<"timestamp", t>>, <<"field", "manual_control_setpoint">>,
                <<"aux1", 1>> >>,
             << <<"timestamp", t>>, <<"field", "manual_control_setpoint">> >>,
             << <<"timestamp", t>>, <<"field", "sensor_combined">>,
                <<"gyro_rad_x", 0>>, <<"gyro_rad_y", 0>>, <<"gyro_rad_z", 0>>,
                <<"acc_x", 0>>, <<"acc_y", 0>>, <<"acc_z", 0>> >> } :
           t \in FedTimestamps}

FedLists == UNION {[1..n -> FedEvents] : n \in 0..MaxFed}

\* the windows a user can write into lines 71-72
Windows == {SourceWindow, <<900, 100>>, <<100, 100>>}

----------------------------------------------------------------------------
(* The program as shipped: the window of the source, a log from the        *)
(* decoder, load_data, then run_simulation; a caller may run again.        *)

Init ==
    /\ data_list \in DataLists(MaxBatches, MaxRows)
    /\ data = << >>
    /\ pc = "main"
    /\ i = 1
    /\ start_seconds = SourceWindow[1]
    /\ end_seconds = SourceWindow[2]
    /\ pressure_time = << >>
    /\ pressure_log = << >>
    /\ kill_sw_time = << >>
    /\ kill_sw_log = << >>
    /\ stdout = << >>
    /\ plots = << >>
    /\ error = "none"
    /\ trace = << >>
    /\ runs = 0
    /\ done_calls = 0

Next ==
    \/ Main_load
    \/ Run_init
    \/ Run_update
    \/ Run_done
    \/ Main_completed
    \/ Run_again
    \/ Done_again

Spec == Init /\ [][Next]_vars

\* run_simulation is straight-line code: a started run takes its next step
RunStep == Run_init \/ Run_update \/ Run_done

FairSpec == Spec /\ WF_vars(RunStep)

(* run_simulation called directly, with a list the caller built and a      *)
(* window the user set.                                                    *)

InitFed ==
    /\ data_list = << >>
    /\ data \in FedLists
    /\ pc = "run"
    /\ i = 1
    /\ \E w \in Windows : start_seconds = w[1] /\ end_seconds = w[2]
    /\ pressure_time = << >>
    /\ pressure_log = << >>
    /\ kill_sw_time = << >>
    /\ kill_sw_log = << >>
    /\ stdout = << >>
    /\ plots = << >>
    /\ error = "none"
    /\ trace = << >>
    /\ runs = 1
    /\ done_calls = 0

NextFed ==
    \/ Run_init
    \/ Run_update
    \/ Run_done

SpecFed == InitFed /\ [][NextFed]_vars

----------------------------------------------------------------------------
(* Vocabulary of the properties. *)

\* a timestamp in seconds, as a count of microseconds
Micros(t) == t[1] * MicrosPerSecond + t[2]

\* start_seconds < t < end_seconds, both strict
StrictlyInside(t) ==
    /\ start_seconds * MicrosPerSecond < Micros(t)
    /\ Micros(t) < end_seconds * MicrosPerSecond

TimeOf(e) == Get(e, "timestamp")

KindOf(e) == Get(e, "field")

IsPressure(e) == KindOf(e) = "vehicle_air_data"

IsKillSwitch(e) == KindOf(e) = "manual_control_setpoint"

\* the events the current run has fed to update so far
Fed == SubSeq(data, 1, IF pc = "aborted" THEN i ELSE i - 1)

Histories == <<pressure_time, pressure_log, kill_sw_time, kill_sw_log>>

\* INIT, RUNNING, DONE of the engine, read off the position of the run
Engine ==
    CASE pc \in {"main", "run"} -> "INIT"
      [] pc = "loop" -> "RUNNING"
      [] pc \in {"returned", "completed"} -> "DONE"
      [] OTHER -> "ABORTED"

\* this step is run_simulation's call of algorithm_update on data[i]
UpdateCall == pc = "loop" /\ i <= Len(data) /\ Len(trace') = Len(trace) + 1

\* this step is a call of algorithm_done
DoneCall == Len(plots') = Len(plots) + 1

----------------------------------------------------------------------------
\* C1: an update on a PRESSURE or KILL_SWITCH event appends the event's
\* timestamp and value to the history of its kind exactly when
\* start_seconds < timestamp < end_seconds, both strict; otherwise (also on
\* either bound) both histories stay as they were.
WindowFiltering ==
    [][UpdateCall =>
        LET e == data[i]
        IN  /\ IsPressure(e) /\ StrictlyInside(TimeOf(e)) =>
                 Histories' = <<Append(pressure_time, TimeOf(e)),
                                Append(pressure_log, Get(e, "baro_pressure_pa")),
                                kill_sw_time, kill_sw_log>>
            /\ IsKillSwitch(e) /\ StrictlyInside(TimeOf(e)) =>
                 Histories' = <<pressure_time, pressure_log,
                                Append(kill_sw_time, TimeOf(e)),
                                Append(kill_sw_log, Get(e, "aux1"))>>
            /\ ~StrictlyInside(TimeOf(e)) => Histories' = Histories]_vars

\* a pressure event on the lower bound, a kill-switch event on the upper
\* bound and an event inside the window have been fed; only the last is kept
WindowFilteringWitness ==
    /\ pc = "returned"
    /\ runs = 1
    /\ \E k \in 1..Len(data) :
          IsPressure(data[k]) /\ TimeOf(data[k]) = <<start_seconds, 0>>
    /\ \E k \in 1..Len(data) :
          IsKillSwitch(data[k]) /\ TimeOf(data[k]) = <<end_seconds, 0>>
    /\ Len(pressure_time) + Len(kill_sw_time) = 1

\* C2: the list load_data returns (data, when run_simulation is entered) is
\* non-decreasing in timestamp.
MergedNonDecreasing ==
    pc = "run" =>
        \A k \in 1..(Len(data) - 1) :
            Micros(TimeOf(data[k])) <= Micros(TimeOf(data[k + 1]))

\* a log whose three rows come in strictly decreasing time has been loaded
MergedNonDecreasingWitness ==
    /\ pc = "run"
    /\ Len(data) = 3
    /\ LET d == Collect(data_list)
       IN  /\ Len(d) = 3
           /\ Micros(TimeOf(d[1])) > Micros(TimeOf(d[2]))
           /\ Micros(TimeOf(d[2])) > Micros(TimeOf(d[3]))

\* the events of s with timestamp t, in the order of s
AtTime(s, t) ==
    LET Same(e) == TimeOf(e) = t
    IN  SelectSeq(s, Same)

\* C3: events with equal timestamps keep, in the merged list, the order in
\* which load_data built them (data list order, then row order).
MergeStable ==
    pc = "run" =>
        \A t \in {Seconds(r) : r \in RawTimestamps} :
            AtTime(data, t) = AtTime(Collect(data_list), t)

\* a PRESSURE row and, later in the log, a KILL_SWITCH row with the same
\* timestamp have been merged, with an earlier row that the log holds
\* between them
MergeStableWitness ==
    /\ pc = "run"
    /\ LET d == Collect(data_list)
       IN  /\ Len(d) = 3
           /\ IsPressure(d[1]) /\ IsKillSwitch(d[3])
           /\ TimeOf(d[1]) = TimeOf(d[3])
           /\ Micros(TimeOf(d[2])) < Micros(TimeOf(d[1]))
           /\ data = <<d[2], d[1], d[3]>>

\* the payload column of a topic, and the key load_data stores it under
PayloadColumn(name) ==
    CASE name = "sensor_combined" -> "gyro_rad[0]"
      [] name = "vehicle_air_data" -> "baro_pressure_pa"
      [] name = "manual_control_setpoint" -> "aux1"

PayloadKeyOf(name) ==
    CASE name = "sensor_combined" -> "gyro_rad_x"
      [] name = "vehicle_air_data" -> "baro_pressure_pa"
      [] name = "manual_control_setpoint" -> "aux1"

ReadTopics == {"sensor_combined", "vehicle_air_data", "manual_control_setpoint"}

\* the rows of topic name with raw timestamp ts and payload v, over all the
\* batches of the log
RowsLike(name, ts, v) ==
    {<<b, k>> \in (1..Len(data_list)) \X (1..MaxRows) :
        /\ data_list[b].name = name
        /\ k <= Len(data_list[b].data["timestamp"])
        /\ data_list[b].data["timestamp"][k] = ts
        /\ data_list[b].data[PayloadColumn(name)][k] = v}

\* the merged events of topic name with that timestamp and payload
EventsLike(name, ts, v) ==
    {k \in 1..Len(data) :
        /\ KindOf(data[k]) = name
        /\ TimeOf(data[k]) = Seconds(ts)
        /\ Get(data[k], PayloadKeyOf(name)) = v}

\* the rows of the topics load_data reads
ReadRows ==
    {<<b, k>> \in (1..Len(data_list)) \X (1..MaxRows) :
        /\ data_list[b].name \in ReadTopics
        /\ k <= Len(data_list[b].data["timestamp"])}

\* C4: the merged list holds every row of the three topics exactly as often
\* as the log does, and nothing else.
MergeKeepsEvents ==
    pc = "run" =>
        /\ Len(data) = Cardinality(ReadRows)
        /\ \A name \in ReadTopics, ts \in RawTimestamps,
              v \in PayloadValues \cup {0} :
                Cardinality(EventsLike(name, ts, v))
                    = Cardinality(RowsLike(name, ts, v))

\* two batches of the same topic, holding the same row, have been merged
MergeKeepsEventsWitness ==
    /\ pc = "run"
    /\ Len(data_list) = 2
    /\ data_list[1].name = "vehicle_air_data"
    /\ data_list[2] = data_list[1]
    /\ Len(data) = 2
    /\ data[1] = data[2]

\* the <<time list, value list>> a history of the events of s under key
\* should hold: one entry per event, in the order of s
PairsOf(s, key) ==
    <<[k \in 1..Len(s) |-> TimeOf(s[k])], [k \in 1..Len(s) |-> Get(s[k], key)]>>

\* C5: after init() and the feeding of PRESSURE and KILL_SWITCH events that
\* all lie inside the window (IMU events among them or not), the pressure
\* history is exactly the fed pressure events in feed order, the kill-switch
\* history exactly the fed kill-switch events in feed order.
RoundTrip ==
    (/\ pc \in {"loop", "returned", "completed"}
     /\ \A k \in 1..Len(Fed) :
          IsPressure(Fed[k]) \/ IsKillSwitch(Fed[k])
              => StrictlyInside(TimeOf(Fed[k])))
    => /\ <<pressure_time, pressure_log>>
            = PairsOf(SelectSeq(Fed, IsPressure), "baro_pressure_pa")
       /\ <<kill_sw_time, kill_sw_log>>
            = PairsOf(SelectSeq(Fed, IsKillSwitch), "aux1")

\* C6: in the state right after a call of init() both histories are empty.
InitResets ==
    (pc = "loop" /\ i = 1 /\ trace = << <<"init">> >>)
        => Histories = <<<< >>, << >>, << >>, << >>>>

\* C7: a call of done() prints its one line and hands the window and the
\* histories to the plot without changing them; a further call, made when the
\* run has already returned, does the same again, raises nothing, leaves the
\* engine DONE, and hands over what the call before it handed over.
DoneIdempotent ==
    [][DoneCall =>
        /\ Histories' = Histories
        /\ stdout' = Append(stdout, <<"Algorithm done">>)
        /\ plots'[Len(plots')]
             = <<start_seconds, end_seconds, pressure_time, pressure_log,
                 kill_sw_time, kill_sw_log>>
        /\ error' = error
        /\ Engine' = "DONE"
        /\ Engine = "DONE" => plots'[Len(plots')] = plots[Len(plots)]]_vars

\* done() has been called a second time on histories that are not empty
DoneIdempotentWitness ==
    /\ done_calls = 1
    /\ Len(plots) = 2
    /\ pressure_time # << >>
    /\ kill_sw_time # << >>

\* data[i] is a PRESSURE event inside the window without its pressure field
MalformedPressureNext ==
    /\ pc \in {"loop", "aborted"}
    /\ i <= Len(data)
    /\ IsPressure(data[i])
    /\ ~HasKey(data[i], "baro_pressure_pa")
    /\ StrictlyInside(TimeOf(data[i]))

ConfigErrorIsFatal ==
    start_seconds >= end_seconds => (pc = "run" /\ trace = << >>)

\* the calls a run has made when it stands at pc with loop index i
ExpectedTrace ==
    IF pc = "run" THEN << >>
    ELSE << <<"init">> >>
            \o [k \in 1..(i - 1) |-> <<"update", data[k]>>]
            \o (IF pc \in {"returned", "completed"} THEN << <<"done">> >>
                ELSE << >>)

\* C10: one run calls init() once and first, then update once per event of
\* the list in list order, then done() once and last; the engine only moves
\* INIT -> RUNNING -> DONE (and back to INIT when a new run is started); and
\* every run that starts reaches DONE.
LifecycleOrdering ==
    /\ [](pc # "main" => i <= Len(data) + 1 /\ trace = ExpectedTrace)
    /\ [](pc \in {"returned", "completed"} => i = Len(data) + 1)
    /\ [][Engine' # Engine =>
            <<Engine, Engine'>> \in {<<"INIT", "RUNNING">>,
                                     <<"RUNNING", "DONE">>,
                                     <<"DONE", "INIT">>}]_vars
    /\ (pc = "run") ~> (pc = "returned")

\* a run over three events has returned
LifecycleOrderingWitness ==
    /\ pc = "returned"
    /\ Len(data) = 3
    /\ Len(trace) = 5

====
